---- MODULE Spec2Model ----
(***************************************************************************)
(* PortWatch Pro (port_monitor_2.py): the host port snapshot, the          *)
(* container port index and the range view that MainWindow builds from     *)
(* them.  Records are Python objects shared between _all_records and the   *)
(* view rows; _enrich_with_docker mutates them in place, so the operators  *)
(* that model a view rebuild return both the rows and the mutated          *)
(* _all_records.                                                           *)
(***************************************************************************)
EXTENDS Integers, Sequences, FiniteSets, TLC

VARIABLES all_records, docker_index, range_from, range_to,
          cb_only_used, cb_only_docker, rows, docker_env, scan_pc,
          host_env, proc, io

vars == <<all_records, docker_index, range_from, range_to,
          cb_only_used, cb_only_docker, rows, docker_env, scan_pc,
          host_env, proc, io>>

\* ------------------------------------------------------------------ bounds
\* ports of the model: 1..MaxPort (the spin boxes allow 1..65535)
MaxPort == 2
\* longest host snapshot a scan returns
MaxRecords == 2
\* most containers one docker listing returns
MaxContainers == 2

\* Optional[int] None of PortRecord.pid / PortRecord.docker_cport
None == 0

Ports == 1..MaxPort

\* ------------------------------------------------------------ conversions
\* str.upper() on the strings the model uses
Upper(s) ==
  CASE s = "tcp" -> "TCP"
    [] s = "udp" -> "UDP"
    [] s = "free" -> "FREE"
    [] OTHER -> s

\* int(s): the number a decimal string denotes, -1 when int() raises
ParseInt(s) ==
  IF \E n \in 0..(MaxPort + 1) : ToString(n) = s
  THEN CHOOSE n \in 0..(MaxPort + 1) : ToString(n) = s
  ELSE -1

\* -------------------------------------------------------------- data model
PortRecord(port, protocol, status, pid, process, local_addr, remote_addr) ==
  [port |-> port, protocol |-> protocol, status |-> status, pid |-> pid,
   process |-> process, local_addr |-> local_addr, remote_addr |-> remote_addr,
   docker_name |-> "", docker_id |-> "", docker_image |-> "",
   docker_cport |-> None]

is_free(r) == Upper(r.status) = "FREE"

DockerPortInfo(container_id, container_name, image, host_ip, host_port, container_port, protocol) ==
  [container_id |-> container_id, container_name |-> container_name,
   image |-> image, host_ip |-> host_ip, host_port |-> host_port,
   container_port |-> container_port, protocol |-> protocol]

\* dict.get(key) on the container index: the list, or <<>> for a missing key
IndexGet(index, key) == IF key \in DOMAIN index THEN index[key] ELSE <<>>

\* variant: the new mapping goes to the front of the key's list
IndexAppendFront(index, key, info) ==
  [k \in (DOMAIN index) \cup {key} |->
     IF k = key THEN <<info>> \o IndexGet(index, key) ELSE index[k]]

\* index.setdefault(key, []).append(info)
IndexAppend(index, key, info) ==
  [k \in (DOMAIN index) \cup {key} |->
     IF k = key THEN Append(IndexGet(index, key), info) ELSE index[k]]

EmptyIndex == [k \in {} |-> <<>>]

\* ------------------------------------------------- MainWindow: enrichment
\* variant: the (protocol, port) lookup alone, no TCP retry
LookupInfosNoFallback(index, r) ==
  IndexGet(index, <<Upper(r.protocol), r.port>>)

\* the lookup of _enrich_with_docker: (protocol, port), then for a UDP record
\* without mappings the TCP entry of the same port
LookupInfos(index, r) ==
  LET infos == IndexGet(index, <<Upper(r.protocol), r.port>>)
  IN IF infos = <<>> /\ Upper(r.protocol) = "UDP"
     THEN IndexGet(index, <<"TCP", r.port>>)
     ELSE infos

\* variant: a name already set is kept (r.docker_name or primary.container_name)
SetPrimaryKeepName(r, primary) ==
  [r EXCEPT !.docker_name = IF @ = "" THEN primary.container_name ELSE @,
            !.docker_id = primary.container_id,
            !.docker_image = primary.image,
            !.docker_cport = primary.container_port]

\* r.docker_name = primary.container_name; r.docker_id = ...; ...
SetPrimary(r, primary) ==
  [r EXCEPT !.docker_name = primary.container_name,
            !.docker_id = primary.container_id,
            !.docker_image = primary.image,
            !.docker_cport = primary.container_port]

\* variant: the suffix counts every mapping, len(infos)
AppendSuffixCountAll(r, infos) ==
  IF Len(infos) > 1
  THEN [r EXCEPT !.docker_name = @ \o " (+" \o ToString(Len(infos)) \o ")"]
  ELSE r

\* if len(infos) > 1: r.docker_name += f" (+{len(infos)-1})"
AppendSuffix(r, infos) ==
  IF Len(infos) > 1
  THEN [r EXCEPT !.docker_name = @ \o " (+" \o ToString(Len(infos) - 1) \o ")"]
  ELSE r

\* the body of the loop of _enrich_with_docker for one record
EnrichRecord(index, r) ==
  LET infos == LookupInfos(index, r)
  IN IF infos # <<>> THEN AppendSuffix(SetPrimary(r, infos[1]), infos) ELSE r

\* ------------------------------------------------ MainWindow: range view
\* variant: the start is taken from range_from without min()
RangeStartFrom(a, b) == a

RangeStart(a, b) == IF a <= b THEN a ELSE b

RangeEnd(a, b) == IF a >= b THEN a ELSE b

RecordKey(r) == <<Upper(r.protocol), r.port>>

\* variant: used_ports_map[key] = r without the membership test, the last
\* record of a key stays
LastIndex(recs, key) ==
  IF \E i \in 1..Len(recs) : RecordKey(recs[i]) = key
  THEN CHOOSE i \in 1..Len(recs) :
         /\ RecordKey(recs[i]) = key
         /\ \A j \in (i + 1)..Len(recs) : RecordKey(recs[j]) # key
  ELSE 0

\* used_ports_map: the position in _all_records of the record stored under
\* key (the first one with that key), 0 when the key is not in the map
FirstIndex(recs, key) ==
  IF \E i \in 1..Len(recs) : RecordKey(recs[i]) = key
  THEN CHOOSE i \in 1..Len(recs) :
         /\ RecordKey(recs[i]) = key
         /\ \A j \in 1..(i - 1) : RecordKey(recs[j]) # key
  ELSE 0

\* variant: the port passed as pid
FreeRecordWithPid(p, port) ==
  PortRecord(port, p, "FREE", port, "", "*:" \o ToString(port), "")

\* the synthetic record appended for a port without binding
FreeRecord(p, port) ==
  PortRecord(port, p, "FREE", None, "", "*:" \o ToString(port), "")

\* variant: for p in ("UDP", "TCP")
ProtocolOrderUdpFirst == <<"UDP", "TCP">>

\* for p in ("TCP", "UDP")
ProtocolOrder == <<"TCP", "UDP">>

\* the (protocol, port) pairs in the order the two nested loops visit them
SweepKeys(start, end) ==
  LET n == end - start + 1
  IN [k \in 1..(Len(ProtocolOrder) * n) |->
        <<ProtocolOrder[((k - 1) \div n) + 1], start + ((k - 1) % n)>>]

\* variant: the FREE record is appended whatever cb_only_used says
EmitSlotAlways(recs, key, only_used) ==
  LET i == FirstIndex(recs, key)
  IN IF i # 0 THEN <<[ref |-> i, rec |-> recs[i]]>>
     ELSE <<[ref |-> 0, rec |-> FreeRecord(key[1], key[2])]>>

\* what one iteration appends to rows: <<>> or one slot; a slot is the
\* appended object, ref its position in _all_records (0: a new object)
EmitSlot(recs, key, only_used) ==
  LET i == FirstIndex(recs, key)
  IN IF i # 0 THEN <<[ref |-> i, rec |-> recs[i]]>>
     ELSE IF ~only_used
          THEN <<[ref |-> 0, rec |-> FreeRecord(key[1], key[2])]>>
          ELSE <<>>

RECURSIVE SweepSlots(_, _, _, _)
SweepSlots(recs, keys, k, only_used) ==
  IF k > Len(keys) THEN <<>>
  ELSE EmitSlot(recs, keys[k], only_used) \o SweepSlots(recs, keys, k + 1, only_used)

\* variant: cb_only_docker is ignored
FilterDockerNone(rs, only_docker) == rs

\* rows = [r for r in rows if r.docker_name]  when cb_only_docker is checked
FilterDocker(rs, only_docker) ==
  IF only_docker THEN SelectSeq(rs, LAMBDA r : r.docker_name # "") ELSE rs

\* _build_range_view: the returned rows, and _all_records after the in-place
\* enrichment of the records that were appended to rows
BuildRangeView(recs, index, from, to, only_used, only_docker) ==
  LET start == RangeStart(from, to)
      end == RangeEnd(from, to)
      slots == SweepSlots(recs, SweepKeys(start, end), 1, only_used)
      enriched == [k \in 1..Len(slots) |-> EnrichRecord(index, slots[k].rec)]
      mutated == [i \in 1..Len(recs) |->
                    IF \E k \in 1..Len(slots) : slots[k].ref = i
                    THEN EnrichRecord(index, recs[i])
                    ELSE recs[i]]
  IN [rows |-> FilterDocker(enriched, only_docker), all_records |-> mutated]

\* ---------------------------------------------------- collect_docker_ports
\* c.id[:12] on the container ids of the model
ShortId(id) ==
  CASE id = "0123456789abcdef" -> "0123456789ab"
    [] id = "fedcba9876543210" -> "fedcba987654"
    [] OTHER -> id

\* for bind in binds: one DockerPortInfo per bind whose HostPort parses
RECURSIVE SdkBinds(_, _, _, _, _, _)
SdkBinds(index, c, proto, cport, binds, b) ==
  IF b > Len(binds) THEN index
  ELSE LET host_port == ParseInt(binds[b].HostPort)
       IN IF host_port = -1
          THEN SdkBinds(index, c, proto, cport, binds, b + 1)
          ELSE SdkBinds(
                 IndexAppend(index, <<proto, host_port>>,
                   DockerPortInfo(ShortId(c.id), c.name, c.image,
                                  binds[b].HostIp, host_port, cport, proto)),
                 c, proto, cport, binds, b + 1)

\* for key, binds in ports.items()
RECURSIVE SdkPorts(_, _, _)
SdkPorts(index, c, k) ==
  IF k > Len(c.ports) THEN index
  ELSE LET entry == c.ports[k]
           proto == Upper(entry.proto)
           cport == ParseInt(entry.cport_str)
       IN IF cport = -1 \/ entry.binds = <<>>
          THEN SdkPorts(index, c, k + 1)
          ELSE SdkPorts(SdkBinds(index, c, proto, cport, entry.binds, 1), c, k + 1)

\* for c in client.containers.list(): the index is the one dict the function
\* fills; raised tells that an exception left the loop at container i
RECURSIVE SdkPass(_, _, _)
SdkPass(index, containers, i) ==
  IF i > Len(containers) THEN [index |-> index, raised |-> FALSE]
  ELSE IF containers[i].raises THEN [index |-> index, raised |-> TRUE]
  ELSE SdkPass(SdkPorts(index, containers[i], 1), containers, i + 1)

\* variant: the first clause that does not parse ends the loop
RECURSIVE CliClausesBreak(_, _, _)
CliClausesBreak(index, obj, e) ==
  IF e > Len(obj.clauses) THEN index
  ELSE LET entry == obj.clauses[e]
           proto == Upper(entry.proto)
           cport == ParseInt(entry.cport_str)
           hport == ParseInt(entry.hport_str)
       IN IF ~entry.arrow \/ cport = -1 \/ hport = -1
          THEN index
          ELSE CliClausesBreak(
                 IndexAppend(index, <<proto, hport>>,
                   DockerPortInfo(ShortId(obj.id), obj.name, obj.image,
                                  entry.hip, hport, cport, proto)),
                 obj, e + 1)

\* for entry in ports_str.split(","): one DockerPortInfo per clause that parses
RECURSIVE CliClauses(_, _, _)
CliClauses(index, obj, e) ==
  IF e > Len(obj.clauses) THEN index
  ELSE LET entry == obj.clauses[e]
           proto == Upper(entry.proto)
           cport == ParseInt(entry.cport_str)
           hport == ParseInt(entry.hport_str)
       IN IF ~entry.arrow \/ cport = -1 \/ hport = -1
          THEN CliClauses(index, obj, e + 1)
          ELSE CliClauses(
                 IndexAppend(index, <<proto, hport>>,
                   DockerPortInfo(ShortId(obj.id), obj.name, obj.image,
                                  entry.hip, hport, cport, proto)),
                 obj, e + 1)

\* for line in out.splitlines()
RECURSIVE CliPass(_, _, _)
CliPass(index, lines, l) ==
  IF l > Len(lines) THEN index
  ELSE IF ~lines[l].json THEN CliPass(index, lines, l + 1)
  ELSE CliPass(CliClauses(index, lines[l], 1), lines, l + 1)

\* the second half of collect_docker_ports, entered with the dict as the
\* first half left it
CliFallback(index, env) ==
  IF env.cli_ok /\ env.ps_ok THEN CliPass(index, env.lines, 1) ELSE index

collect_docker_ports(env) ==
  LET sdk == IF ~env.from_env_ok
             THEN [index |-> EmptyIndex, raised |-> TRUE]
             ELSE SdkPass(EmptyIndex, env.containers, 1)
  IN IF env.has_sdk /\ ~sdk.raised THEN sdk.index
     ELSE CliFallback(IF env.has_sdk THEN sdk.index ELSE EmptyIndex, env)

\* the subprocess commands one collect_docker_ports runs, in order: none
\* when the SDK pass returned, else the probe of docker_available_via_cli
\* and, after a successful probe, the listing
DockerCommands(env) ==
  LET sdk == IF ~env.from_env_ok
             THEN [index |-> EmptyIndex, raised |-> TRUE]
             ELSE SdkPass(EmptyIndex, env.containers, 1)
  IN IF env.has_sdk /\ ~sdk.raised THEN <<>>
     ELSE IF env.cli_ok THEN <<"docker version", "docker ps">>
     ELSE <<"docker version">>

\* ------------------------------------------------------ collect_used_ports
\* the machine a host scan runs on: whether psutil was imported, whether
\* psutil.net_connections answers and with which sockets, whether netstat or
\* lsof answers and which records its lines parse to
HostEnv(has_psutil, psutil_ok, conns, tool_ok, lines) ==
  [has_psutil |-> has_psutil, psutil_ok |-> psutil_ok, conns |-> conns,
   tool_ok |-> tool_ok, lines |-> lines]

\* the PortRecord list_used_ports_psutil builds for the i-th connection
PsutilRecord(i, c) ==
  LET proto == IF c.type = "SOCK_STREAM" THEN "TCP" ELSE "UDP"
  IN PortRecord(c.port, proto, IF proto = "TCP" THEN "LISTEN" ELSE "NONE",
                100 * i, "proc" \o ToString(100 * i),
                "0.0.0.0:" \o ToString(c.port), "")

\* an exception of net_connections is caught and gives the empty list
list_used_ports_psutil(env) ==
  [recs |-> IF env.psutil_ok
            THEN [i \in DOMAIN env.conns |-> PsutilRecord(i, env.conns[i])]
            ELSE <<>>,
   raised |-> FALSE]

\* the whole body is inside try/except Exception: pass
list_used_ports_netstat(env) ==
  [recs |-> IF env.tool_ok THEN env.lines ELSE <<>>, raised |-> FALSE]

\* variant: the psutil result is returned even when it is empty
collect_used_ports_psutil_only(env) ==
  IF env.has_psutil
  THEN [recs |-> list_used_ports_psutil(env).recs, raised |-> FALSE,
        calls |-> <<"list_used_ports_psutil">>]
  ELSE [recs |-> list_used_ports_netstat(env).recs, raised |-> FALSE,
        calls |-> <<"list_used_ports_netstat">>]

\* calls lists the strategies invoked, in order
collect_used_ports(env) ==
  LET first == list_used_ports_psutil(env)
      second == list_used_ports_netstat(env)
  IN IF env.has_psutil /\ ~first.raised /\ first.recs # <<>>
     THEN [recs |-> first.recs, raised |-> FALSE,
           calls |-> <<"list_used_ports_psutil">>]
     ELSE IF env.has_psutil /\ first.raised
     THEN [recs |-> <<>>, raised |-> TRUE,
           calls |-> <<"list_used_ports_psutil">>]
     ELSE [recs |-> second.recs, raised |-> second.raised,
           calls |-> (IF env.has_psutil THEN <<"list_used_ports_psutil">>
                      ELSE <<>>) \o <<"list_used_ports_netstat">>]

\* a machine without psutil whose netstat or lsof reports recs
HostEnvOf(recs) == HostEnv(FALSE, FALSE, <<>>, TRUE, recs)

\* no process is being ended
NoProc == [pc |-> "none"]

\* ------------------------------------------------------------ kill_process
\* how the process behind a pid answers: it is gone, it may not be
\* signalled, it exits on a termination request, or it ignores one
Targets == {"gone", "denied", "exits", "ignores"}

\* _detail_kill has a record with a pid and shows its confirmation box
KillAsked(pid, os_name, target) ==
  [pc |-> "asked", pid |-> pid, os_name |-> os_name, target |-> target,
   sent |-> <<>>, waited |-> FALSE, timed_out |-> FALSE, ok |-> FALSE,
   err |-> ""]

\* return ok, err
KillReturn(p, ok, err) == [p EXCEPT !.pc = "returned", !.ok = ok, !.err = err]

\* kill_process up to p.wait or to its return: psutil.Process(pid) and
\* p.terminate(), taskkill /PID pid /T /F, or os.kill(pid, 15)
KillBegin(p, has_psutil) ==
  IF has_psutil
  THEN IF p.target = "gone" THEN KillReturn(p, FALSE, "NoSuchProcess")
       ELSE IF p.target = "denied" THEN KillReturn(p, FALSE, "AccessDenied")
       ELSE [p EXCEPT !.pc = "waiting", !.sent = <<"terminate">>]
  ELSE IF p.os_name = "nt"
  THEN IF p.target \in {"gone", "denied"}
       THEN KillReturn(p, FALSE, "taskkill error")
       ELSE KillReturn([p EXCEPT !.sent = <<"taskkill /F">>], TRUE, "")
  ELSE IF p.target = "gone" THEN KillReturn(p, FALSE, "Proces nie istnieje.")
       ELSE IF p.target = "denied"
       THEN KillReturn(p, FALSE, "Brak uprawnien (uruchom jako administrator).")
       ELSE KillReturn([p EXCEPT !.sent = <<"SIGTERM">>], TRUE, "")

\* p.wait(timeout=3) and, when it raises, p.kill(); then return True, ""
KillWait(p) ==
  IF p.target = "exits"
  THEN KillReturn([p EXCEPT !.waited = TRUE], TRUE, "")
  ELSE KillReturn([p EXCEPT !.waited = TRUE, !.timed_out = TRUE,
                            !.sent = Append(p.sent, "kill")], TRUE, "")

\* the interface thread is inside no blocking call
NoIo == [call |-> "none"]

\* the interface thread is inside subprocess.check_output of a command whose
\* tool answers or hangs; timeout is the timeout argument, None without one
Blocking(call, timeout, responds) ==
  [call |-> call, timeout |-> timeout, responds |-> responds]

\* ------------------------------------------------------------ input sets
\* sequences of length 0..n over S
SeqsUpTo(S, n) == UNION {[1..m -> S] : m \in 0..n}

\* what a host scan reports for the i-th socket of the connection table
ScanProtocols == {"TCP", "UDP", "?"}

ScanRecord(i, proto, port) ==
  PortRecord(port, proto,
             IF proto = "TCP" THEN "LISTEN" ELSE IF proto = "UDP" THEN "NONE" ELSE "",
             100 * i, "PID " \o ToString(100 * i),
             "0.0.0.0:" \o ToString(port), "")

\* the results collect_used_ports can return
ScanResults ==
  {[i \in DOMAIN ks |-> ScanRecord(i, ks[i][1], ks[i][2])] :
     ks \in SeqsUpTo(ScanProtocols \X Ports, MaxRecords)}

\* the results the scans of the running window return: at most one socket
MainScans == {s \in ScanResults : Len(s) <= 1}

\* what psutil.net_connections returns: no socket or one
PsutilConns ==
  {<<>>} \cup {<<[type |-> t, port |-> p]>> :
                 t \in {"SOCK_STREAM", "SOCK_DGRAM"}, p \in Ports}

\* the machines a host scan can meet
HostEnvs ==
  {HostEnv(ps.has, ps.ok, ps.conns, tool.ok, tool.lines) :
     ps \in {[has |-> FALSE, ok |-> FALSE, conns |-> <<>>],
             [has |-> TRUE, ok |-> FALSE, conns |-> <<>>]}
            \cup {[has |-> TRUE, ok |-> TRUE, conns |-> c] : c \in PsutilConns},
     tool \in {[ok |-> FALSE, lines |-> <<>>]}
              \cup {[ok |-> TRUE, lines |-> l] : l \in ScanResults}}

\* the machines on which the view shows one socket with a pid
KillHostEnvs ==
  {HostEnv(TRUE, TRUE, c, FALSE, <<>>) : c \in PsutilConns \ {<<>>}}
  \cup {HostEnvOf(s) :
          s \in {x \in ScanResults : Len(x) = 1 /\ x[1].protocol # "?"}}

\* the machines the running window scans: no psutil, lsof answers
MainHostEnvs == {HostEnvOf(s) : s \in MainScans}

HostPortStrs == {ToString(p) : p \in Ports} \cup {""}

SdkBind(hp, ip) == [HostPort |-> hp, HostIp |-> ip]

\* the binds of one published port: one bind, or the IPv4 and IPv6 binds of
\* the same host port
SdkBindLists(hps) ==
  {<<SdkBind(hp, "0.0.0.0")>> : hp \in hps}
  \cup {<<SdkBind(hp, "0.0.0.0"), SdkBind(hp, "::")>> : hp \in hps}

SdkPortTables(hps) ==
  {<<>>} \cup
  {<<[cport_str |-> "3", proto |-> p, binds |-> b]>> :
     p \in {"tcp", "udp"}, b \in SdkBindLists(hps)}

ContainerId(i) ==
  IF i = 1 THEN "0123456789abcdef"
  ELSE IF i = 2 THEN "fedcba9876543210" ELSE "c" \o ToString(i)

ContainerName(i) == IF i = 1 THEN "web" ELSE "web" \o ToString(i)

\* the i-th container of a listing: its attrs raise, or it has a port table
SdkContainer(i, raises, ports) ==
  [id |-> ContainerId(i), name |-> ContainerName(i),
   image |-> "img" \o ToString(i), raises |-> raises, ports |-> ports]

SdkContainers(i, hps) ==
  {SdkContainer(i, TRUE, <<>>)}
  \cup {SdkContainer(i, FALSE, t) : t \in SdkPortTables(hps)}

RECURSIVE SdkListings(_, _)
SdkListings(hps, n) ==
  IF n = 0 THEN {<<>>}
  ELSE LET shorter == SdkListings(hps, n - 1)
       IN shorter \cup
          {Append(l, c) : l \in {x \in shorter : Len(x) = n - 1},
                          c \in SdkContainers(n, hps)}

CliClauseSet ==
  [arrow : BOOLEAN, hip : {"0.0.0.0"}, hport_str : HostPortStrs,
   cport_str : {"3"}, proto : {"tcp"}]

CliLines ==
  {<<>>, <<[json |-> FALSE, id |-> "", name |-> "", image |-> "", clauses |-> <<>>]>>}
  \cup {<<[json |-> TRUE, id |-> "aaaaaaaaaaaa", name |-> "dns", image |-> "bind9",
           clauses |-> cl]>> : cl \in SeqsUpTo(CliClauseSet, 1)}

NoCli == [cli_ok |-> FALSE, ps_ok |-> FALSE, lines |-> <<>>]

CliEnvs ==
  {NoCli, [cli_ok |-> TRUE, ps_ok |-> FALSE, lines |-> <<>>]}
  \cup {[cli_ok |-> TRUE, ps_ok |-> TRUE, lines |-> ls] : ls \in CliLines}

DockerEnv(has_sdk, from_env_ok, containers, cli) ==
  [has_sdk |-> has_sdk, from_env_ok |-> from_env_ok, containers |-> containers,
   cli_ok |-> cli.cli_ok, ps_ok |-> cli.ps_ok, lines |-> cli.lines]

\* the docker environments a container scan can meet
DockerEnvs ==
  {DockerEnv(FALSE, FALSE, <<>>, cli) : cli \in CliEnvs}
  \cup {DockerEnv(TRUE, FALSE, <<>>, cli) : cli \in CliEnvs}
  \cup {DockerEnv(TRUE, TRUE, cs, cli) :
          cs \in SdkListings(HostPortStrs, MaxContainers), cli \in CliEnvs}

\* the clauses of a Ports string of "docker ps": a published tcp port, an
\* exposed port that is not published ("3/tcp"), a published range whose
\* host part or whose container part is not a number
CliPortClauses ==
  {[arrow |-> TRUE, hip |-> "0.0.0.0", hport_str |-> ToString(p),
    cport_str |-> "3", proto |-> "tcp"] : p \in Ports}
  \cup {[arrow |-> FALSE, hip |-> "", hport_str |-> "", cport_str |-> "3",
          proto |-> "tcp"],
        [arrow |-> TRUE, hip |-> "0.0.0.0", hport_str |-> "1-2",
          cport_str |-> "3", proto |-> "tcp"],
        [arrow |-> TRUE, hip |-> "0.0.0.0", hport_str |-> "1",
          cport_str |-> "3-4", proto |-> "tcp"]}

\* the i-th line of "docker ps": not JSON, or a container with its clauses
CliPsLines(i) ==
  {[json |-> FALSE, id |-> "", name |-> "", image |-> "", clauses |-> <<>>]}
  \cup {[json |-> TRUE, id |-> ShortId(ContainerId(i)), name |-> ContainerName(i),
          image |-> "img" \o ToString(i), clauses |-> cl] :
          cl \in SeqsUpTo(CliPortClauses, 2)}

\* the outputs of "docker ps" of up to n lines
RECURSIVE CliPsOutputs(_)
CliPsOutputs(n) ==
  IF n = 0 THEN {<<>>}
  ELSE LET shorter == CliPsOutputs(n - 1)
       IN shorter \cup
          {Append(l, c) : l \in {x \in shorter : Len(x) = n - 1},
                          c \in CliPsLines(n)}

\* the machines without the SDK on which the docker CLI answers
CliDockerEnvs ==
  {DockerEnv(FALSE, FALSE, <<>>, [cli_ok |-> TRUE, ps_ok |-> TRUE, lines |-> ls]) :
     ls \in CliPsOutputs(MaxContainers)}

\* the listings the window meets while running: every container publishes
\* one port, tcp or udp, on host port 1
MainContainers(i) ==
  {SdkContainer(i, FALSE, t) :
     t \in {<<[cport_str |-> "3", proto |-> p,
               binds |-> <<SdkBind("1", "0.0.0.0")>>]>> : p \in {"tcp", "udp"}}}

MainListings ==
  UNION {{l \in [1..m -> UNION {MainContainers(i) : i \in 1..m}] :
            \A i \in 1..m : l[i] \in MainContainers(i)} : m \in 0..MaxContainers}

\* the environments the window meets while running: the SDK answers
MainEnvs == {DockerEnv(TRUE, TRUE, cs, NoCli) : cs \in MainListings}

\* ------------------------------------------------------------ the window
\* update_view: self.model.setRows(self._build_range_view())
UpdateView(recs, index, from, to, only_used, only_docker) ==
  \E b \in {BuildRangeView(recs, index, from, to, only_used, only_docker)} :
    /\ rows' = b.rows
    /\ all_records' = b.all_records

\* MainWindow.__init__: range 1..1024 (here 1..MaxPort), both boxes unchecked,
\* empty data, then refresh_docker(); refresh_now()
Init ==
  \E env \in MainEnvs, henv \in MainHostEnvs :
    LET index == collect_docker_ports(env)
        used == collect_used_ports(henv).recs
        b == BuildRangeView(used, index, 1, MaxPort, FALSE, FALSE)
    IN /\ docker_env = env
       /\ docker_index = index
       /\ all_records = b.all_records
       /\ rows = b.rows
       /\ range_from = 1
       /\ range_to = MaxPort
       /\ cb_only_used = FALSE
       /\ cb_only_docker = FALSE
       /\ scan_pc = "done"
       /\ host_env = henv
       /\ proc = NoProc
       /\ io = NoIo

refresh_now ==
  \E henv \in MainHostEnvs :
    /\ host_env' = henv
    /\ UpdateView(collect_used_ports(henv).recs, docker_index,
                  range_from, range_to, cb_only_used, cb_only_docker)
    /\ UNCHANGED <<docker_index, range_from, range_to, cb_only_used,
                   cb_only_docker, docker_env, scan_pc, proc, io>>

refresh_docker ==
  \E env \in MainEnvs :
    /\ docker_env' = env
    /\ docker_index' = collect_docker_ports(env)
    /\ UpdateView(all_records, docker_index', range_from, range_to,
                  cb_only_used, cb_only_docker)
    /\ UNCHANGED <<range_from, range_to, cb_only_used, cb_only_docker, scan_pc, host_env, proc, io>>

\* cb_only_used.toggled -> update_view; a slot runs when the event loop of
\* the interface thread dispatches it, so not while another slot is inside a
\* blocking call
toggle_only_used ==
  /\ io = NoIo
  /\ cb_only_used' = ~cb_only_used
  /\ UpdateView(all_records, docker_index, range_from, range_to,
                cb_only_used', cb_only_docker)
  /\ UNCHANGED <<docker_index, range_from, range_to, cb_only_docker,
                 docker_env, scan_pc, host_env, proc, io>>

\* cb_only_docker.toggled -> update_view
toggle_only_docker ==
  /\ io = NoIo
  /\ cb_only_docker' = ~cb_only_docker
  /\ UpdateView(all_records, docker_index, range_from, range_to,
                cb_only_used, cb_only_docker')
  /\ UNCHANGED <<docker_index, range_from, range_to, cb_only_used,
                 docker_env, scan_pc, host_env, proc, io>>

\* the user edits a spin box; nothing is connected to its valueChanged
set_range_from ==
  \E v \in Ports \ {range_from} :
    /\ range_from' = v
    /\ UNCHANGED <<all_records, docker_index, range_to, cb_only_used,
                   cb_only_docker, rows, docker_env, scan_pc, host_env, proc, io>>

set_range_to ==
  \E v \in Ports \ {range_to} :
    /\ range_to' = v
    /\ UNCHANGED <<all_records, docker_index, range_from, cb_only_used,
                   cb_only_docker, rows, docker_env, scan_pc, host_env, proc, io>>

scan_range ==
  /\ UpdateView(all_records, docker_index, range_from, range_to,
                cb_only_used, cb_only_docker)
  /\ UNCHANGED <<docker_index, range_from, range_to, cb_only_used,
                 cb_only_docker, docker_env, scan_pc, host_env, proc, io>>

Next ==
  \/ refresh_now
  \/ refresh_docker
  \/ toggle_only_used
  \/ toggle_only_docker
  \/ set_range_from
  \/ set_range_to
  \/ scan_range

Spec == Init /\ [][Next]_vars

\* ------------------------------------------- one container scan, any input
\* the window's fields are set (lines 577-578) and the first refresh_docker
\* of __init__ is about to call collect_docker_ports
InitDocker ==
  /\ docker_env \in DockerEnvs
  /\ docker_index = EmptyIndex
  /\ all_records = <<>>
  /\ rows = <<>>
  /\ range_from = 1
  /\ range_to = MaxPort
  /\ cb_only_used = FALSE
  /\ cb_only_docker = FALSE
  /\ scan_pc = "idle"
  /\ host_env = HostEnvOf(<<>>)
  /\ proc = NoProc
  /\ io = NoIo

first_refresh_docker ==
  /\ scan_pc = "idle"
  /\ scan_pc' = "done"
  /\ docker_index' = collect_docker_ports(docker_env)
  /\ UpdateView(all_records, docker_index', range_from, range_to,
                cb_only_used, cb_only_docker)
  /\ UNCHANGED <<range_from, range_to, cb_only_used, cb_only_docker,
                 docker_env, host_env, proc, io>>

NextDocker == first_refresh_docker

SpecDocker == InitDocker /\ [][NextDocker]_vars

\* ------------------------------- one container scan through the docker CLI
InitCli ==
  /\ docker_env \in CliDockerEnvs
  /\ docker_index = EmptyIndex
  /\ all_records = <<>>
  /\ rows = <<>>
  /\ range_from = 1
  /\ range_to = MaxPort
  /\ cb_only_used = FALSE
  /\ cb_only_docker = FALSE
  /\ scan_pc = "idle"
  /\ host_env = HostEnvOf(<<>>)
  /\ proc = NoProc
  /\ io = NoIo

SpecCli == InitCli /\ [][NextDocker]_vars

\* --------------------------------------------- one view rebuild, any input
\* refresh_now has stored the scan result (line 592) and is about to call
\* update_view; the index, the range and the boxes are whatever earlier
\* events left
InitView ==
  /\ all_records \in ScanResults
  /\ docker_env \in MainEnvs
  /\ docker_index = collect_docker_ports(docker_env)
  /\ rows = <<>>
  /\ range_from \in Ports
  /\ range_to \in Ports
  /\ cb_only_used \in BOOLEAN
  /\ cb_only_docker \in BOOLEAN
  /\ scan_pc = "scanned"
  /\ host_env = HostEnvOf(all_records)
  /\ proc = NoProc
  /\ io = NoIo

update_view ==
  /\ scan_pc = "scanned"
  /\ scan_pc' = "done"
  /\ UpdateView(all_records, docker_index, range_from, range_to,
                cb_only_used, cb_only_docker)
  /\ UNCHANGED <<docker_index, range_from, range_to, cb_only_used,
                 cb_only_docker, docker_env, host_env, proc, io>>

NextView == update_view

SpecView == InitView /\ [][NextView]_vars

\* ------------------------------------------------ one host scan, any input
\* __init__ has run refresh_docker on a machine without docker and is about
\* to run its first refresh_now
InitScan ==
  /\ host_env \in HostEnvs
  /\ docker_env = DockerEnv(FALSE, FALSE, <<>>, NoCli)
  /\ docker_index = EmptyIndex
  /\ all_records = <<>>
  /\ rows = <<>>
  /\ range_from = 1
  /\ range_to = MaxPort
  /\ cb_only_used = FALSE
  /\ cb_only_docker = FALSE
  /\ scan_pc = "idle"
  /\ proc = NoProc
  /\ io = NoIo

first_refresh_now ==
  /\ scan_pc = "idle"
  /\ scan_pc' = "done"
  /\ UpdateView(collect_used_ports(host_env).recs, docker_index,
                range_from, range_to, cb_only_used, cb_only_docker)
  /\ UNCHANGED <<docker_index, range_from, range_to, cb_only_used,
                 cb_only_docker, docker_env, host_env, proc, io>>

NextScan == first_refresh_now

SpecScan == InitScan /\ [][NextScan]_vars

\* ------------------------------------------------------ ending one process
\* the view shows the socket of the machine, the user has selected it and
\* pressed the kill button of the detail panel
InitKill ==
  \E henv \in KillHostEnvs, os_name \in {"nt", "posix"}, target \in Targets :
    LET b == BuildRangeView(collect_used_ports(henv).recs, EmptyIndex,
                            1, MaxPort, TRUE, FALSE)
    IN /\ host_env = henv
       /\ docker_env = DockerEnv(FALSE, FALSE, <<>>, NoCli)
       /\ docker_index = EmptyIndex
       /\ all_records = b.all_records
       /\ rows = b.rows
       /\ range_from = 1
       /\ range_to = MaxPort
       /\ cb_only_used = TRUE
       /\ cb_only_docker = FALSE
       /\ scan_pc = "done"
       /\ proc = KillAsked(b.rows[1].pid, os_name, target)
       /\ io = NoIo

\* _detail_kill: QMessageBox.question, return unless the answer is Yes
detail_kill_confirm ==
  /\ proc.pc = "asked"
  /\ \E answer \in {"Yes", "No"} :
       proc' = [proc EXCEPT !.pc = IF answer = "Yes" THEN "called" ELSE "closed"]
  /\ UNCHANGED <<all_records, docker_index, range_from, range_to, cb_only_used,
                 cb_only_docker, rows, docker_env, scan_pc, host_env, io>>

kill_process_begin ==
  /\ proc.pc = "called"
  /\ proc' = KillBegin(proc, host_env.has_psutil)
  /\ UNCHANGED <<all_records, docker_index, range_from, range_to, cb_only_used,
                 cb_only_docker, rows, docker_env, scan_pc, host_env, io>>

kill_process_wait ==
  /\ proc.pc = "waiting"
  /\ proc' = KillWait(proc)
  /\ UNCHANGED <<all_records, docker_index, range_from, range_to, cb_only_used,
                 cb_only_docker, rows, docker_env, scan_pc, host_env, io>>

\* _detail_kill after kill_process: on success the message box and
\* refresh_now, which finds the socket still there or gone; else the error box
detail_kill_done ==
  /\ proc.pc = "returned"
  /\ proc' = [proc EXCEPT !.pc = "closed"]
  /\ IF proc.ok
     THEN \E henv \in {host_env, [host_env EXCEPT !.conns = <<>>, !.lines = <<>>]} :
            /\ host_env' = henv
            /\ UpdateView(collect_used_ports(henv).recs, docker_index,
                          range_from, range_to, cb_only_used, cb_only_docker)
     ELSE UNCHANGED <<all_records, rows, host_env>>
  /\ UNCHANGED <<docker_index, range_from, range_to, cb_only_used,
                 cb_only_docker, docker_env, scan_pc, io>>

NextKill ==
  \/ detail_kill_confirm
  \/ kill_process_begin
  \/ kill_process_wait
  \/ detail_kill_done

SpecKill == InitKill /\ [][NextKill]_vars

\* ------------------------------------------- the slots on the event loop
\* a machine without psutil and without the docker SDK: every scan goes
\* through subprocess.check_output on the thread that runs the slot, which
\* for a QTimer and for a button of the window is the interface thread
UiDockerEnvs == {DockerEnv(FALSE, FALSE, <<>>, cli) : cli \in CliEnvs}

InitUi ==
  \E env \in UiDockerEnvs, henv \in MainHostEnvs :
    LET index == collect_docker_ports(env)
        b == BuildRangeView(collect_used_ports(henv).recs, index,
                            1, MaxPort, FALSE, FALSE)
    IN /\ docker_env = env
       /\ docker_index = index
       /\ all_records = b.all_records
       /\ rows = b.rows
       /\ range_from = 1
       /\ range_to = MaxPort
       /\ cb_only_used = FALSE
       /\ cb_only_docker = FALSE
       /\ scan_pc = "done"
       /\ host_env = henv
       /\ proc = NoProc
       /\ io = NoIo

\* timer.timeout or btn_refresh.clicked: refresh_now enters
\* collect_used_ports, which enters check_output(["lsof", "-nP", "-i"])
refresh_now_enter ==
  /\ io = NoIo
  /\ \E responds \in BOOLEAN : io' = Blocking("lsof", None, responds)
  /\ scan_pc' = "refresh_now"
  /\ UNCHANGED <<all_records, docker_index, range_from, range_to, cb_only_used,
                 cb_only_docker, rows, docker_env, host_env, proc>>

\* timer_docker.timeout or btn_docker.clicked: refresh_docker enters
\* collect_docker_ports, which enters the probe of docker_available_via_cli
refresh_docker_enter ==
  /\ io = NoIo
  /\ \E env \in UiDockerEnvs, responds \in BOOLEAN :
       /\ docker_env' = env
       /\ io' = Blocking("docker version", 3, responds)
  /\ scan_pc' = "refresh_docker"
  /\ UNCHANGED <<all_records, docker_index, range_from, range_to, cb_only_used,
                 cb_only_docker, rows, host_env, proc>>

\* check_output returns or raises TimeoutExpired, and the slot runs on: to
\* its end, or from the probe into check_output(["docker", "ps", ...])
check_output_leave ==
  /\ io.call # "none"
  /\ io.responds \/ io.timeout # None
  /\ CASE io.call = "lsof" ->
            \E henv \in MainHostEnvs :
              /\ host_env' = henv
              /\ UpdateView(collect_used_ports(henv).recs, docker_index,
                            range_from, range_to, cb_only_used, cb_only_docker)
              /\ io' = NoIo
              /\ scan_pc' = "done"
              /\ UNCHANGED <<docker_index, docker_env>>
       [] io.call = "docker version" /\ io.responds /\ docker_env.cli_ok ->
            /\ \E responds \in BOOLEAN : io' = Blocking("docker ps", None, responds)
            /\ UNCHANGED <<all_records, rows, docker_index, docker_env,
                           host_env, scan_pc>>
       [] io.call = "docker version" /\ ~(io.responds /\ docker_env.cli_ok) ->
            /\ docker_index' = EmptyIndex
            /\ UpdateView(all_records, docker_index', range_from, range_to,
                          cb_only_used, cb_only_docker)
            /\ io' = NoIo
            /\ scan_pc' = "done"
            /\ UNCHANGED <<docker_env, host_env>>
       [] io.call = "docker ps" ->
            /\ docker_index' = collect_docker_ports(docker_env)
            /\ UpdateView(all_records, docker_index', range_from, range_to,
                          cb_only_used, cb_only_docker)
            /\ io' = NoIo
            /\ scan_pc' = "done"
            /\ UNCHANGED <<docker_env, host_env>>
  /\ UNCHANGED <<range_from, range_to, cb_only_used, cb_only_docker, proc>>

NextUi ==
  \/ refresh_now_enter
  \/ refresh_docker_enter
  \/ check_output_leave
  \/ toggle_only_used
  \/ toggle_only_docker

SpecUi == InitUi /\ [][NextUi]_vars

\* ================================================================ claims
\* the range the two spin boxes denote, whatever their order
Lo == IF range_from < range_to THEN range_from ELSE range_to

Hi == IF range_from < range_to THEN range_to ELSE range_from

\* the positions of the view rows for (p, port)
RowsAt(p, port) ==
  {k \in 1..Len(rows) : rows[k].protocol = p /\ rows[k].port = port}

\* the positions of the host snapshot's bindings for (p, port)
BindingsAt(p, port) ==
  {i \in 1..Len(all_records) :
     Upper(all_records[i].protocol) = p /\ all_records[i].port = port}

\* C1: with the container-only filter off, a port of the normalized range
\* without OS binding for a protocol has exactly one synthetic FREE row for
\* that protocol when used-only is off, and no row at all when it is on.
C1_FreePortsEmitted ==
  (scan_pc = "done" /\ ~cb_only_docker) =>
    \A p \in {"TCP", "UDP"}, port \in Lo..Hi :
      BindingsAt(p, port) = {} =>
        IF cb_only_used
        THEN RowsAt(p, port) = {}
        ELSE /\ Cardinality(RowsAt(p, port)) = 1
             /\ \A k \in RowsAt(p, port) :
                  rows[k].status = "FREE" /\ rows[k].pid = None

\* one protocol of a port is bound, the other is free and shown as FREE
C1_Witness ==
  /\ scan_pc = "done" /\ ~cb_only_docker /\ ~cb_only_used
  /\ \E port \in Lo..Hi :
       /\ BindingsAt("TCP", port) # {}
       /\ BindingsAt("UDP", port) = {}
       /\ \E k \in RowsAt("UDP", port) : rows[k].status = "FREE"

\* C2: a view has at most one row per (protocol, port), and a row whose key
\* has OS bindings is the first binding of that key in snapshot order.
C2_FirstBindingWins ==
  scan_pc = "done" =>
    /\ \A k1, k2 \in 1..Len(rows) :
         (rows[k1].protocol = rows[k2].protocol /\ rows[k1].port = rows[k2].port)
           => k1 = k2
    /\ \A k \in 1..Len(rows) :
         LET same == BindingsAt(Upper(rows[k].protocol), rows[k].port)
         IN same # {} =>
              \E i \in same : /\ \A j \in same : i <= j
                              /\ rows[k] = all_records[i]

\* two bindings share a key and the row shown for it is the earlier one
C2_Witness ==
  /\ scan_pc = "done"
  /\ \E i, j \in 1..Len(all_records) :
       /\ i < j
       /\ Upper(all_records[i].protocol) = Upper(all_records[j].protocol)
       /\ all_records[i].port = all_records[j].port
       /\ all_records[i].pid # all_records[j].pid
       /\ \E k \in 1..Len(rows) : rows[k].pid = all_records[i].pid

\* C3: the rows are the TCP rows in strictly ascending port order followed
\* by the UDP rows in strictly ascending port order, whatever the flags.
C3_TcpBlockThenUdpBlock ==
  scan_pc = "done" =>
    /\ \A k \in 1..Len(rows) : rows[k].protocol \in {"TCP", "UDP"}
    /\ \A k1, k2 \in 1..Len(rows) :
         k1 < k2 =>
           /\ ~(rows[k1].protocol = "UDP" /\ rows[k2].protocol = "TCP")
           /\ rows[k1].protocol = rows[k2].protocol => rows[k1].port < rows[k2].port

\* a view with two TCP rows and a UDP row, from a snapshot that lists the
\* higher port first
C3_Witness ==
  /\ scan_pc = "done"
  /\ Len(all_records) >= 2
  /\ all_records[1].protocol = "TCP" /\ all_records[2].protocol = "TCP"
  /\ all_records[1].port > all_records[2].port
  /\ \E k1, k2, k3 \in 1..Len(rows) :
       /\ k1 < k2 /\ k2 < k3
       /\ rows[k1].protocol = "TCP" /\ rows[k2].protocol = "TCP"
       /\ rows[k3].protocol = "UDP"

\* C4: a rebuild with from > to returns the rows the rebuild with the two
\* bounds exchanged returns.
C4_RangeNormalized ==
  [][(scan_pc = "scanned" /\ scan_pc' = "done" /\ range_from > range_to) =>
       rows' = BuildRangeView(all_records, docker_index, range_to, range_from,
                              cb_only_used, cb_only_docker).rows]_vars

\* a rebuild with from > to that shows both ends of the range
C4_Witness ==
  /\ scan_pc = "done" /\ range_from > range_to
  /\ \E k1, k2 \in 1..Len(rows) :
       rows[k1].port = range_to /\ rows[k2].port = range_from

\* the container name the claims expect for the mappings of one key
ExpectedName(infos) ==
  IF Len(infos) = 1 THEN infos[1].container_name
  ELSE infos[1].container_name \o " (+" \o ToString(Len(infos) - 1) \o ")"

\* r carries the container data of the first mapping of infos
EnrichedFrom(r, infos) ==
  /\ r.docker_id = infos[1].container_id
  /\ r.docker_image = infos[1].image
  /\ r.docker_cport = infos[1].container_port
  /\ r.docker_name = ExpectedName(infos)

\* C5: a row whose (protocol, port) has k >= 1 mappings carries the id, image
\* and container port of the first mapping, and its name: bare when k = 1,
\* followed by " (+k-1)" when k > 1.
C5_EnrichedFromFirstMapping ==
  scan_pc = "done" =>
    \A k \in 1..Len(rows) :
      <<rows[k].protocol, rows[k].port>> \in DOMAIN docker_index =>
        EnrichedFrom(rows[k], docker_index[<<rows[k].protocol, rows[k].port>>])

\* two containers publish the same key and the row shows "web (+1)"
C5_Witness ==
  /\ scan_pc = "done"
  /\ \E k \in 1..Len(rows) :
       /\ <<rows[k].protocol, rows[k].port>> \in DOMAIN docker_index
       /\ Len(docker_index[<<rows[k].protocol, rows[k].port>>]) = 2
       /\ rows[k].docker_name = "web (+1)"
       /\ rows[k].docker_id = "0123456789ab"
       /\ rows[k].docker_cport = 3

\* C6: a UDP row without (UDP, port) mappings but with (TCP, port) mappings
\* is enriched from the TCP entry; with (UDP, port) mappings it is enriched
\* from the UDP entry.
C6_UdpFallsBackToTcp ==
  scan_pc = "done" =>
    \A k \in 1..Len(rows) :
      rows[k].protocol = "UDP" =>
        IF <<"UDP", rows[k].port>> \in DOMAIN docker_index
        THEN EnrichedFrom(rows[k], docker_index[<<"UDP", rows[k].port>>])
        ELSE <<"TCP", rows[k].port>> \in DOMAIN docker_index =>
               EnrichedFrom(rows[k], docker_index[<<"TCP", rows[k].port>>])

\* a bound UDP port whose only mappings are TCP ones shows the TCP container
C6_Witness ==
  /\ scan_pc = "done"
  /\ \E k \in 1..Len(rows) :
       /\ rows[k].protocol = "UDP" /\ rows[k].pid # None
       /\ <<"UDP", rows[k].port>> \notin DOMAIN docker_index
       /\ <<"TCP", rows[k].port>> \in DOMAIN docker_index
       /\ rows[k].docker_name = "web"

\* the rows the window would show with the container-only box in state d
ViewWith(d) ==
  BuildRangeView(all_records, docker_index, range_from, range_to,
                 cb_only_used, d).rows

\* C7: the container-only view is the subsequence of the unfiltered view
\* made of the rows with a non-empty container name, in the same order.
C7_ContainerOnlyIsSubsequence ==
  ViewWith(TRUE) = SelectSeq(ViewWith(FALSE), LAMBDA r : r.docker_name # "")

\* the box is checked and the shown rows are two of the unfiltered view's
C7_Witness ==
  /\ cb_only_docker
  /\ rows = ViewWith(TRUE)
  /\ Len(rows) >= 2
  /\ Len(rows) < Len(ViewWith(FALSE))

\* C8: a rebuild that follows a rebuild with the same index, range and flags
\* returns the same rows, field by field, and leaves the records as they are.
C8_RebuildIdempotent ==
  LET b1 == BuildRangeView(all_records, docker_index, range_from, range_to,
                           cb_only_used, cb_only_docker)
      b2 == BuildRangeView(b1.all_records, docker_index, range_from, range_to,
                           cb_only_used, cb_only_docker)
  IN b2.rows = b1.rows /\ b2.all_records = b1.all_records

\* after the used-only box was toggled, a binding that an earlier rebuild
\* enriched in place was enriched again and still shows "web (+1)"
C8_Witness ==
  /\ cb_only_used
  /\ \E i \in 1..Len(all_records) :
       /\ all_records[i].docker_name = "web (+1)"
       /\ \E k \in 1..Len(rows) : rows[k] = all_records[i]
  /\ rows = ViewWith(cb_only_docker)

\* C9: a row is one of the OS bindings of the snapshot or a synthetic FREE
\* record: no pid, no process name, no remote address, local address
\* "*:<port>".
C9_BindingOrSyntheticFree ==
  scan_pc = "done" =>
    \A k \in 1..Len(rows) :
      \/ \E i \in 1..Len(all_records) : rows[k] = all_records[i]
      \/ /\ is_free(rows[k])
         /\ rows[k].pid = None
         /\ rows[k].process = ""
         /\ rows[k].remote_addr = ""
         /\ rows[k].local_addr = "*:" \o ToString(rows[k].port)

\* a view with a binding and a synthetic FREE row that carries container data
C9_Witness ==
  /\ scan_pc = "done"
  /\ \E k1, k2 \in 1..Len(rows) :
       /\ \E i \in 1..Len(all_records) : rows[k1] = all_records[i]
       /\ rows[k2].status = "FREE" /\ rows[k2].docker_name # ""

\* the SDK strategy raised during its pass
SdkRaised(env) ==
  /\ env.has_sdk
  /\ \/ ~env.from_env_ok
     \/ \E i \in 1..Len(env.containers) : env.containers[i].raises

\* C10: when the SDK strategy raises, the returned index is what the CLI
\* fallback alone produces (empty when the fallback does not run): none of
\* the mappings the SDK pass gathered is in it.
C10_NoPartialSdkData ==
  (scan_pc = "done" /\ SdkRaised(docker_env)) =>
    docker_index = CliFallback(EmptyIndex, docker_env)
\* the container scan went past its SDK half into the command-line half
FallbackReached(env) == ~env.has_sdk \/ SdkRaised(env)

\* C11: the container scan runs "docker ps" only after a successful
\* "docker version" probe, and whenever it reaches the command-line half and
\* the probe fails it returns an empty index
C11_ProbeGuardsListing ==
  scan_pc = "done" =>
    LET cmds == DockerCommands(docker_env)
    IN /\ \A k \in 1..Len(cmds) :
            cmds[k] = "docker ps" =>
              /\ docker_env.cli_ok
              /\ \E j \in 1..(k - 1) : cmds[j] = "docker version"
       /\ (FallbackReached(docker_env) /\ ~docker_env.cli_ok)
            => docker_index = EmptyIndex

\* C12: a host scan returns the psutil result when psutil is available and
\* that result is non-empty, without invoking the fallback; otherwise it
\* returns the netstat/lsof result; it never raises, and when both strategies
\* fail the result is the empty sequence
C12_PrimaryElseFallback ==
  scan_pc = "done" =>
    LET got == collect_used_ports(host_env)
        primary == list_used_ports_psutil(host_env).recs
        fallback == list_used_ports_netstat(host_env).recs
        invoked == {got.calls[k] : k \in 1..Len(got.calls)}
    IN /\ ~got.raised
       /\ IF host_env.has_psutil /\ primary # <<>>
          THEN all_records = primary /\ "list_used_ports_netstat" \notin invoked
          ELSE all_records = fallback /\ "list_used_ports_netstat" \in invoked
       /\ ((host_env.has_psutil => ~host_env.psutil_ok) /\ ~host_env.tool_ok)
            => all_records = <<>>

\* psutil found a socket while lsof would have reported other records
C12_Witness ==
  /\ scan_pc = "done"
  /\ host_env.has_psutil /\ host_env.conns # <<>>
  /\ host_env.tool_ok /\ Len(host_env.lines) = 2
  /\ Len(all_records) = 1 /\ all_records[1].process = "proc100"

\* a clause of a Ports string that parses: "->", numeric host port, numeric
\* container port
ClauseParses(cl) ==
  cl.arrow /\ ParseInt(cl.hport_str) # -1 /\ ParseInt(cl.cport_str) # -1

\* the mappings of the index under key that belong to the container name
MappingsOf(key, name) ==
  SelectSeq(IndexGet(docker_index, key), LAMBDA d : d.container_name = name)

\* C13: in the command-line half of the container scan every clause of a
\* line that parses yields one mapping, whatever its sibling clauses and the
\* other lines are: a clause without "->" or with a non-numeric port is
\* skipped alone
C13_BadClauseSkippedAlone ==
  scan_pc = "done" =>
    \A l \in 1..Len(docker_env.lines) :
      LET line == docker_env.lines[l]
      IN line.json =>
           \A p \in Ports :
             Len(MappingsOf(<<"TCP", p>>, line.name))
               = Cardinality({e \in 1..Len(line.clauses) :
                                /\ ClauseParses(line.clauses[e])
                                /\ ParseInt(line.clauses[e].hport_str) = p})

\* a line whose first clause does not parse and whose second does, next to
\* another line with a mapping
C13_Witness ==
  /\ scan_pc = "done"
  /\ Len(docker_env.lines) = 2
  /\ docker_env.lines[1].json /\ Len(docker_env.lines[1].clauses) = 2
  /\ ~ClauseParses(docker_env.lines[1].clauses[1])
  /\ ClauseParses(docker_env.lines[1].clauses[2])
  /\ Len(MappingsOf(<<"TCP", 1>>, "web")) = 1
  /\ Len(MappingsOf(<<"TCP", 1>>, "web2")) = 1

\* the concatenation of a sequence of sequences
RECURSIVE Concat(_)
Concat(ss) == IF ss = <<>> THEN <<>> ELSE Head(ss) \o Concat(Tail(ss))

\* the mappings the SDK half reads off container c, in the order of its
\* port table and of each entry's binds
SdkMappings(c) ==
  Concat([k \in 1..Len(c.ports) |->
    LET entry == c.ports[k]
        binds == SelectSeq(entry.binds, LAMBDA b : ParseInt(b.HostPort) # -1)
    IN IF ParseInt(entry.cport_str) = -1 THEN <<>>
       ELSE [j \in 1..Len(binds) |->
               DockerPortInfo(ShortId(c.id), c.name, c.image, binds[j].HostIp,
                              ParseInt(binds[j].HostPort),
                              ParseInt(entry.cport_str), Upper(entry.proto))]])

\* the mappings the command-line half reads off one line of "docker ps"
CliMappings(line) ==
  LET good == SelectSeq(line.clauses, ClauseParses)
  IN IF ~line.json THEN <<>>
     ELSE [j \in 1..Len(good) |->
             DockerPortInfo(ShortId(line.id), line.name, line.image, good[j].hip,
                            ParseInt(good[j].hport_str),
                            ParseInt(good[j].cport_str), Upper(good[j].proto))]

\* every mapping one container scan parses, in the order it meets them: the
\* containers before the first one that raises, then the lines of the listing
Encountered(env) ==
  LET raising == {i \in 1..Len(env.containers) : env.containers[i].raises}
      n == IF raising = {} THEN Len(env.containers)
           ELSE (CHOOSE i \in raising : \A j \in raising : i <= j) - 1
      sdk == IF env.has_sdk /\ env.from_env_ok
             THEN Concat([i \in 1..n |-> SdkMappings(env.containers[i])])
             ELSE <<>>
      cli == IF FallbackReached(env) /\ env.cli_ok /\ env.ps_ok
             THEN Concat([l \in 1..Len(env.lines) |-> CliMappings(env.lines[l])])
             ELSE <<>>
  IN sdk \o cli

\* C14: in the index a container scan returns, every mapping under key
\* (P, h) has protocol P, upper-case, and host port h; no key holds an empty
\* list; every parsed mapping is kept, and each key's list is in the order
\* the scan met its mappings
C14_IndexWellFormed ==
  scan_pc = "done" =>
    /\ \A key \in DOMAIN docker_index :
         /\ key[1] \in {"TCP", "UDP"}
         /\ docker_index[key] # <<>>
         /\ \A k \in 1..Len(docker_index[key]) :
              /\ docker_index[key][k].protocol = key[1]
              /\ docker_index[key][k].host_port = key[2]
    /\ \A P \in {"TCP", "UDP"}, h \in Ports :
         IndexGet(docker_index, <<P, h>>)
           = SelectSeq(Encountered(docker_env),
                       LAMBDA d : d.protocol = P /\ d.host_port = h)

\* two containers publish the same host port, the first on IPv4 and IPv6
C14_Witness ==
  /\ scan_pc = "done"
  /\ \E key \in DOMAIN docker_index :
       /\ Len(docker_index[key]) = 3
       /\ docker_index[key][1].host_ip = "0.0.0.0"
       /\ docker_index[key][2].host_ip = "::"
       /\ docker_index[key][1].container_name = "web"
       /\ docker_index[key][3].container_name = "web2"

\* the signals that ask a process to exit, and those that end it by force
Graceful == {"terminate", "SIGTERM"}

Forceful == {"kill", "taskkill /F"}

\* C15: when kill_process reports success it has first sent a graceful
\* termination signal, then waited a bounded time, and it has sent a
\* forceful kill exactly when the target had not exited by the end of the wait
C15_GracefulWaitThenForce ==
  (proc.pc = "returned" /\ proc.ok) =>
    /\ proc.sent # <<>> /\ proc.sent[1] \in Graceful
    /\ proc.waited
    /\ (\E k \in 1..Len(proc.sent) : proc.sent[k] \in Forceful) <=> proc.timed_out

\* C16: while a host scan, a container scan or one of their command-line
\* fallbacks is in progress the interface thread is not blocked: the slots of
\* the user's input can run
C16_InputServedDuringScan ==
  io.call # "none" => ENABLED (toggle_only_used \/ toggle_only_docker)

\* C17: every subprocess call of a scan is bounded by a timeout, so a scan
\* whose tool never answers can still complete
C17_EveryCallBounded ==
  io.call # "none" => (io.timeout # None /\ ENABLED check_output_leave)

\* C18: every record of the displayed view that carries a container name or
\* id has a mapping in the current container index at (protocol, port) or,
\* for a UDP record, at (TCP, port); so once a container refresh yields an
\* index without that key the rebuilt view shows no container data for it
C18_NoStaleContainerData ==
  \A k \in 1..Len(rows) :
    (rows[k].docker_name # "" \/ rows[k].docker_id # "") =>
      \/ IndexGet(docker_index, <<Upper(rows[k].protocol), rows[k].port>>) # <<>>
      \/ /\ Upper(rows[k].protocol) = "UDP"
         /\ IndexGet(docker_index, <<"TCP", rows[k].port>>) # <<>>

====
